---- MODULE Spec2Model ----
(***************************************************************************)
(* Signal extraction and alerting engine of the AcadWell backend:         *)
(*   app/utils/wellness_notifications.py  (alert routing and throttling)  *)
(*   app/utils/notification_manager.py    (in-app + email fan-out)        *)
(*   app/utils/email_service.py           (email log and anti-spam check) *)
(*   app/utils/mental_health_analyzer.py  (rule-based text classifier)    *)
(*   app/api/messages.py, app/api/wellness.py (the routes that call them) *)
(*                                                                         *)
(* Time is counted in hours.  The Mongo collections are sequences of      *)
(* records in insertion order.                                            *)
(***************************************************************************)
EXTENDS Integers, Sequences, FiniteSets, TLC

VARIABLES
    now,                \* datetime.utcnow(), in hours
    notifications,      \* db.notifications
    wellness_alerts,    \* db.wellness_alerts (the throttle log)
    email_notifications,\* db.email_notifications (the email log)
    outbox,             \* emails the transport accepted (send_email returned True)
    emailUp,            \* whether the SendGrid transport currently accepts mail
    importOk,           \* whether app.utils.notification_manager can be imported
    ncalls,             \* number of check_and_send_alerts calls made so far
    lastCall,           \* the last completed call and what it produced
    pc,                 \* concurrent requests: position of each in check_and_send_alerts
    req,                \* concurrent requests: arguments, and what each emitted
    lexicon,            \* the module-level table CRISIS_KEYWORDS of the analyzer
    arg,                \* the text argument of the analyze_text call under study
    result,             \* what that call returned (<<>> before the call)
    calls,              \* the analyze_text calls made so far, with their results
    mental_health_logs, \* db.mental_health_logs
    user_wellness_profile, \* db.user_wellness_profile: overall_status per user
    nsubmits,           \* number of messages sent through the send-message route
    lastSubmit,         \* the last message sent and what the route did with it
    mood_entries,       \* db.mood_entries
    history,            \* the wellness_logs argument of get_trend_analysis
    trend               \* what get_trend_analysis returned (<<>> before the call)

routerVars == <<now, notifications, wellness_alerts, email_notifications, outbox,
                emailUp, importOk, ncalls, lastCall>>
concVars == <<pc, req>>
analyzerVars == <<lexicon, arg, result, calls>>
routeVars == <<mental_health_logs, user_wellness_profile, nsubmits, lastSubmit,
               mood_entries>>
trendVars == <<history, trend>>
vars == <<now, notifications, wellness_alerts, email_notifications, outbox,
          emailUp, importOk, ncalls, lastCall, pc, req, lexicon, arg, result, calls,
          mental_health_logs, user_wellness_profile, nsubmits, lastSubmit,
          mood_entries, history, trend>>

(***************************************************************************)
(* Bounds of the model.                                                    *)
(***************************************************************************)
MaxTime == 6
MaxCalls == 2
MaxPhrases == 3
MaxAnalyses == 3
MaxLongTime == 25
MaxSubmits == 2
MaxHistory == 4

(***************************************************************************)
(* The users and profiles collections (static in this model).             *)
(***************************************************************************)
None == "none"

users == <<
    [user_id |-> "s1", name |-> "S1", role |-> "student",   email |-> "s1@x"],
    [user_id |-> "s2", name |-> "S2", role |-> "student",   email |-> "s2@x"],
    [user_id |-> "t1", name |-> "T1", role |-> "teacher",   email |-> None],
    [user_id |-> "c1", name |-> "C1", role |-> "counselor", email |-> "c1@x"],
    [user_id |-> "a1", name |-> "A1", role |-> "admin",     email |-> "a1@x"] >>

\* profiles: a1 has switched off the critical_wellness_alert emails
profiles == <<
    [user_id |-> "a1", emailNotifications |-> [critical_wellness_alert |-> FALSE]] >>

CallerIds == {"s1", "s2", "x9"}
Procs == {"p1", "p2"}
Levels == {"green", "yellow", "orange", "red"}

Range(s) == {s[i] : i \in DOMAIN s}

\* the result of a find_one: <<>> for None, else <<document>>
FindOne(hits) == IF hits = <<>> THEN <<>> ELSE <<Head(hits)>>

\* db.users.find_one({'user_id': user_id})
find_user(user_id) == FindOne(SelectSeq(users, LAMBDA u : u.user_id = user_id))

\* db.users.find({'role': {'$in': roles}})
find_users_by_role(roles) == SelectSeq(users, LAMBDA u : u.role \in roles)

\* db.profiles.find_one({'user_id': user_id})
find_profile(user_id) == FindOne(SelectSeq(profiles, LAMBDA q : q.user_id = user_id))

(***************************************************************************)
(* The world a call reads and writes, as one record.                      *)
(***************************************************************************)
World == [notifications       |-> notifications,
          wellness_alerts     |-> wellness_alerts,
          email_notifications |-> email_notifications,
          outbox              |-> outbox]

(***************************************************************************)
(* email_service.py                                                        *)
(***************************************************************************)
\* check_email_sent_recently(db, recipient_email, email_type, hours)
check_email_sent_recently(w, recipient_email, email_type, hours, t) ==
    \E i \in DOMAIN w.email_notifications :
        LET e == w.email_notifications[i] IN
        /\ e.recipient_email = recipient_email
        /\ e.email_type = email_type
        /\ e.timestamp >= t - hours
        /\ e.success

\* log_email_sent(db, recipient_email, email_type, subject, success)
log_email_sent(w, recipient_email, email_type, success, t) ==
    [w EXCEPT !.email_notifications =
        Append(@, [recipient_email |-> recipient_email,
                   email_type      |-> email_type,
                   success         |-> success,
                   timestamp       |-> t])]

\* send_wellness_alert_email -> send_email: True iff the transport took the mail
send_wellness_alert_email(w, to_email, level, student_id, ntype, up, t) ==
    IF up
    THEN [w EXCEPT !.outbox = Append(@, [to         |-> to_email,
                                          email_type |-> ntype,
                                          level      |-> level,
                                          student_id |-> student_id,
                                          timestamp  |-> t])]
    ELSE w

(***************************************************************************)
(* notification_manager.py                                                 *)
(***************************************************************************)
AntiSpamTypes == {"wellness_alert", "critical_wellness_alert"}
EmailAntiSpamHours == 2

\* NotificationManager._send_email_notification
send_email_notification(w, user, notification_type, ctx, up, t) ==
    IF /\ notification_type \in AntiSpamTypes
       /\ check_email_sent_recently(w, user.email, notification_type,
                                    EmailAntiSpamHours, t)
    THEN w
    ELSE IF notification_type = "critical_wellness_alert"
         THEN log_email_sent(
                  send_wellness_alert_email(w, user.email, "red", ctx.student_id,
                                            notification_type, up, t),
                  user.email, notification_type, up, t)
         ELSE IF notification_type = "high_concern_alert"
         THEN log_email_sent(
                  send_wellness_alert_email(w, user.email, "orange", ctx.student_id,
                                            notification_type, up, t),
                  user.email, notification_type, up, t)
         ELSE log_email_sent(w, user.email, notification_type, FALSE, t)

\* email_prefs.get(notification_type, True)
email_enabled(profile, notification_type) ==
    IF profile = <<>> THEN TRUE
    ELSE IF notification_type \in DOMAIN profile[1].emailNotifications
         THEN profile[1].emailNotifications[notification_type]
         ELSE TRUE

\* send_notification creating no in-app notification for a recipient who has
\* switched the email of that type off
send_notification_EmailGated(w, user_id, notification_type, priority, send_email, ctx, up, t) ==
    LET w1 == [w EXCEPT !.notifications =
                   Append(@, [recipient_id |-> user_id,
                              type         |-> notification_type,
                              priority     |-> priority,
                              student_id   |-> ctx.student_id,
                              level        |-> ctx.level,
                              timestamp    |-> t])]
        user == find_user(user_id)
    IN  IF send_email /\ user # <<>> /\ user[1].email # None
        THEN IF email_enabled(find_profile(user_id), notification_type)
             THEN send_email_notification(w1, user[1], notification_type, ctx, up, t)
             ELSE w
        ELSE w1

\* NotificationManager.send_notification
send_notification(w, user_id, notification_type, priority, send_email, ctx, up, t) ==
    LET w1 == [w EXCEPT !.notifications =
                   Append(@, [recipient_id |-> user_id,
                              type         |-> notification_type,
                              priority     |-> priority,
                              student_id   |-> ctx.student_id,
                              level        |-> ctx.level,
                              timestamp    |-> t])]
        user == find_user(user_id)
    IN  IF /\ send_email
           /\ user # <<>>
           /\ user[1].email # None
           /\ email_enabled(find_profile(user_id), notification_type)
        THEN send_email_notification(w1, user[1], notification_type, ctx, up, t)
        ELSE w1

\* alert_plan with the orange branch also addressing teachers
alert_plan_OrangeTeachers(level) ==
    IF level = "red"
    THEN [notification_type |-> "critical_wellness_alert", priority |-> "urgent",
          send_email |-> TRUE, recipient_roles |-> {"teacher", "counselor", "admin"}]
    ELSE IF level = "orange"
    THEN [notification_type |-> "high_concern_alert", priority |-> "high",
          send_email |-> TRUE, recipient_roles |-> {"teacher", "counselor", "admin"}]
    ELSE [notification_type |-> "monitor_alert", priority |-> "normal",
          send_email |-> FALSE, recipient_roles |-> {"admin"}]

\* the level branches of NotificationManager.send_wellness_alert
alert_plan(level) ==
    IF level = "red"
    THEN [notification_type |-> "critical_wellness_alert", priority |-> "urgent",
          send_email |-> TRUE, recipient_roles |-> {"teacher", "counselor", "admin"}]
    ELSE IF level = "orange"
    THEN [notification_type |-> "high_concern_alert", priority |-> "high",
          send_email |-> TRUE, recipient_roles |-> {"counselor", "admin"}]
    ELSE [notification_type |-> "monitor_alert", priority |-> "normal",
          send_email |-> FALSE, recipient_roles |-> {"admin"}]

\* the "for staff in staff_members" loop of send_wellness_alert
RECURSIVE notify_staff(_, _, _, _, _, _)
notify_staff(w, staff, plan, ctx, up, t) ==
    IF staff = <<>> THEN w
    ELSE notify_staff(
             send_notification(w, Head(staff).user_id, plan.notification_type,
                               plan.priority, plan.send_email, ctx, up, t),
             Tail(staff), plan, ctx, up, t)

\* NotificationManager.send_wellness_alert
send_wellness_alert(w, student_id, level, up, t) ==
    IF find_user(student_id) = <<>> THEN w
    ELSE LET plan == alert_plan(level) IN
         notify_staff(w, find_users_by_role(plan.recipient_roles), plan,
                      [student_id |-> student_id, level |-> level], up, t)

(***************************************************************************)
(* wellness_notifications.py                                               *)
(***************************************************************************)
\* the legacy and monitor loops: db.notifications.insert_one per staff member
RECURSIVE insert_alerts(_, _, _, _, _, _, _)
insert_alerts(w, staff, ntype, priority, student_id, level, t) ==
    IF staff = <<>> THEN w
    ELSE insert_alerts(
             [w EXCEPT !.notifications =
                 Append(@, [recipient_id |-> Head(staff).user_id,
                            type         |-> ntype,
                            priority     |-> priority,
                            student_id   |-> student_id,
                            level        |-> level,
                            timestamp    |-> t])],
             Tail(staff), ntype, priority, student_id, level, t)

send_critical_alert_legacy(w, user_id, t) ==
    insert_alerts(w, find_users_by_role({"teacher", "counselor", "admin"}),
                  "critical_wellness_alert", "urgent", user_id, "red", t)

send_high_concern_alert_legacy(w, user_id, t) ==
    insert_alerts(w, find_users_by_role({"counselor", "admin"}),
                  "high_concern_alert", "high", user_id, "orange", t)

send_critical_alert(w, user_id, imp, up, t) ==
    IF imp THEN send_wellness_alert(w, user_id, "red", up, t)
    ELSE send_critical_alert_legacy(w, user_id, t)

send_high_concern_alert(w, user_id, imp, up, t) ==
    IF imp THEN send_wellness_alert(w, user_id, "orange", up, t)
    ELSE send_high_concern_alert_legacy(w, user_id, t)

\* send_monitor_alert going through the notification manager with email requested
send_monitor_alert_Emailing(w, user_id, t) ==
    notify_staff(w, find_users_by_role({"admin"}),
                 [notification_type |-> "monitor_alert", priority |-> "normal",
                  send_email |-> TRUE, recipient_roles |-> {"admin"}],
                 [student_id |-> user_id, level |-> "yellow"], TRUE, t)

send_monitor_alert(w, user_id, t) ==
    insert_alerts(w, find_users_by_role({"admin"}),
                  "monitor_alert", "normal", user_id, "yellow", t)

\* throttle_periods.get(level, 24)
throttle_hours(level) ==
    IF level = "red" THEN 2
    ELSE IF level = "orange" THEN 6
    ELSE IF level = "yellow" THEN 24
    ELSE 24

\* the same query without the level in its filter
last_alert_AnyLevel(w, user_id, level) ==
    LET hits == {i \in DOMAIN w.wellness_alerts :
                    w.wellness_alerts[i].user_id = user_id}
    IN  IF hits = {} THEN <<>>
        ELSE << w.wellness_alerts[CHOOSE i \in hits :
                 \A j \in hits :
                    \/ w.wellness_alerts[j].timestamp < w.wellness_alerts[i].timestamp
                    \/ /\ w.wellness_alerts[j].timestamp = w.wellness_alerts[i].timestamp
                       /\ i <= j] >>

\* db.wellness_alerts.find_one({user_id, level}, sort=[('timestamp', -1)])
last_alert(w, user_id, level) ==
    LET hits == {i \in DOMAIN w.wellness_alerts :
                    /\ w.wellness_alerts[i].user_id = user_id
                    /\ w.wellness_alerts[i].level = level}
    IN  IF hits = {} THEN <<>>
        ELSE << w.wellness_alerts[CHOOSE i \in hits :
                 \A j \in hits :
                    \/ w.wellness_alerts[j].timestamp < w.wellness_alerts[i].timestamp
                    \/ /\ w.wellness_alerts[j].timestamp = w.wellness_alerts[i].timestamp
                       /\ i <= j] >>

\* should_throttle_alert measuring every level against the red window
should_throttle_alert_RedWindow(w, user_id, level, t) ==
    LET la == last_alert(w, user_id, level) IN
    IF la = <<>> THEN FALSE
    ELSE t - la[1].timestamp < throttle_hours("red")

\* should_throttle_alert still throttling when exactly the window has elapsed
should_throttle_alert_Inclusive(w, user_id, level, t) ==
    LET la == last_alert(w, user_id, level) IN
    IF la = <<>> THEN FALSE
    ELSE t - la[1].timestamp <= throttle_hours(level)

should_throttle_alert(w, user_id, level, t) ==
    LET la == last_alert(w, user_id, level) IN
    IF la = <<>> THEN FALSE
    ELSE t - la[1].timestamp < throttle_hours(level)

log_alert_sent(w, user_id, level, t) ==
    [w EXCEPT !.wellness_alerts =
        Append(@, [user_id |-> user_id, level |-> level, timestamp |-> t])]

\* the same with a final "else" branch that sends the monitor alert
dispatch_alert_GreenMonitors(w, user_id, level, imp, up, t) ==
    IF level = "red" THEN send_critical_alert(w, user_id, imp, up, t)
    ELSE IF level = "orange" THEN send_high_concern_alert(w, user_id, imp, up, t)
    ELSE send_monitor_alert(w, user_id, t)

\* lines 37-42 of check_and_send_alerts
dispatch_alert(w, user_id, level, imp, up, t) ==
    IF level = "red" THEN send_critical_alert(w, user_id, imp, up, t)
    ELSE IF level = "orange" THEN send_high_concern_alert(w, user_id, imp, up, t)
    ELSE IF level = "yellow" THEN send_monitor_alert(w, user_id, t)
    ELSE w

\* check_and_send_alerts writing the throttle record on a suppressed call too
check_and_send_alerts_LogsSuppressed(w, user_id, level, imp, up, t) ==
    IF find_user(user_id) = <<>> THEN w
    ELSE IF should_throttle_alert(w, user_id, level, t)
    THEN log_alert_sent(w, user_id, level, t)
    ELSE log_alert_sent(dispatch_alert(w, user_id, level, imp, up, t),
                        user_id, level, t)

\* lines 25-45 of check_and_send_alerts (no store operation failing)
check_and_send_alerts(w, user_id, level, imp, up, t) ==
    IF find_user(user_id) = <<>> THEN w
    ELSE IF should_throttle_alert(w, user_id, level, t) THEN w
    ELSE log_alert_sent(dispatch_alert(w, user_id, level, imp, up, t),
                        user_id, level, t)

(***************************************************************************)
(* wellness_notifications.py when a store operation raises.  The fault    *)
(* names the operation that raises during the call: the read of           *)
(* db.users (line 27), the read of db.wellness_alerts (line 57), an       *)
(* insert into db.notifications, or the insert into db.wellness_alerts    *)
(* (line 86).  An operator returns the world it leaves and whether an     *)
(* exception leaves it.                                                    *)
(***************************************************************************)
Faults == {"none", "users_read", "alerts_read", "notifications_write", "alerts_write"}

Returned(w) == [w |-> w, exc |-> FALSE]
Raised(w) == [w |-> w, exc |-> TRUE]

\* the roles a level's alert goes to (lines 150, 175, 196 and the manager)
staff_of(level) ==
    IF level = "yellow" THEN find_users_by_role({"admin"})
    ELSE find_users_by_role(alert_plan(level).recipient_roles)

\* lines 37-42: the first db.notifications.insert_one of the staff loop
\* raises; neither send_critical_alert nor the manager catches it (only
\* ImportError is caught, lines 113 and 140)
dispatch_alert_under(w, user_id, level, imp, up, t, fault) ==
    IF /\ fault = "notifications_write"
       /\ level \in {"red", "orange", "yellow"}
       /\ staff_of(level) # <<>>
    THEN Raised(w)
    ELSE Returned(dispatch_alert(w, user_id, level, imp, up, t))

\* the body of the try block, lines 26-45
alert_body(w, user_id, level, imp, up, t, fault) ==
    IF fault = "users_read" THEN Raised(w)
    ELSE IF find_user(user_id) = <<>> THEN Returned(w)
    ELSE IF fault = "alerts_read" THEN Raised(w)
    ELSE IF should_throttle_alert(w, user_id, level, t) THEN Returned(w)
    ELSE LET d == dispatch_alert_under(w, user_id, level, imp, up, t, fault) IN
         IF d.exc THEN d
         ELSE IF fault = "alerts_write" THEN Raised(d.w)
         ELSE Returned(log_alert_sent(d.w, user_id, level, t))

\* check_and_send_alerts without its try/except
check_and_send_alerts_under_Unguarded(w, user_id, level, imp, up, t, fault) ==
    LET body == alert_body(w, user_id, level, imp, up, t, fault) IN
    [w |-> body.w, raised |-> body.exc, failed |-> body.exc]

\* check_and_send_alerts: "except Exception" (lines 47-48) prints and returns
check_and_send_alerts_under(w, user_id, level, imp, up, t, fault) ==
    LET body == alert_body(w, user_id, level, imp, up, t, fault) IN
    [w |-> body.w, raised |-> FALSE, failed |-> body.exc]

\* encouragement_messages.get(level, encouragement_messages['yellow'])['title']
encouragement_title(level) ==
    IF level = "green" THEN "You're doing great!"
    ELSE IF level = "orange" THEN "Your wellbeing matters"
    ELSE IF level = "red" THEN "You're not alone"
    ELSE "We're here for you"

\* send_student_encouragement skipping a student who already has an
\* encouragement of that level
send_student_encouragement_Throttled(w, user_id, level, t) ==
    IF \E i \in DOMAIN w.notifications :
          /\ w.notifications[i].type = "wellness_encouragement"
          /\ w.notifications[i].recipient_id = user_id
          /\ w.notifications[i].level = level
    THEN w
    ELSE [w EXCEPT !.notifications =
             Append(@, [recipient_id |-> user_id,
                        type         |-> "wellness_encouragement",
                        priority     |-> "normal",
                        title        |-> encouragement_title(level),
                        level        |-> level,
                        timestamp    |-> t])]

\* send_student_encouragement(user_id, level, db)
send_student_encouragement(w, user_id, level, t) ==
    [w EXCEPT !.notifications =
        Append(@, [recipient_id |-> user_id,
                   type         |-> "wellness_encouragement",
                   priority     |-> "normal",
                   title        |-> encouragement_title(level),
                   level        |-> level,
                   timestamp    |-> t])]

(***************************************************************************)
(* mental_health_analyzer.py: exact decimal arithmetic for the scores.    *)
(* A number is n / 10^e; the multipliers of the source have one decimal.  *)
(***************************************************************************)
Dec(n, e) == [n |-> n, e |-> e]
Num(k) == Dec(k, 0)

RECURSIVE Pow10(_)
Pow10(k) == IF k = 0 THEN 1 ELSE 10 * Pow10(k - 1)

RECURSIVE Norm(_)
Norm(x) == IF x.e > 0 /\ x.n % 10 = 0 THEN Norm(Dec(x.n \div 10, x.e - 1)) ELSE x

MaxOf(a, b) == IF a >= b THEN a ELSE b
MinOf(a, b) == IF a <= b THEN a ELSE b

\* x rescaled to e decimals (e >= x.e), as an integer
Scaled(x, e) == x.n * Pow10(e - x.e)

DecMul(x, y) == Norm(Dec(x.n * y.n, x.e + y.e))
DecAdd(x, y) == LET e == MaxOf(x.e, y.e) IN Norm(Dec(Scaled(x, e) + Scaled(y, e), e))
DecLess(x, y) == LET e == MaxOf(x.e, y.e) IN Scaled(x, e) < Scaled(y, e)
DecLeq(x, y) == LET e == MaxOf(x.e, y.e) IN Scaled(x, e) <= Scaled(y, e)
DecMax(x, y) == IF DecLess(x, y) THEN y ELSE x
DecMin(x, y) == IF DecLess(y, x) THEN y ELSE x

\* round(x, 2) for x >= 0 (a tie goes to the even neighbour)
Round2(x) ==
    IF x.e <= 2 THEN x
    ELSE LET p == Pow10(x.e - 2)
             q == x.n \div p
             r == x.n % p
         IN  IF 2 * r > p \/ (2 * r = p /\ q % 2 = 1)
             THEN Norm(Dec(q + 1, 2))
             ELSE Norm(Dec(q, 2))

(***************************************************************************)
(* str methods used by the analyzer.                                      *)
(***************************************************************************)
UpperLetters == "ABCDEFGHIJKLMNOPQRSTUVWXYZ"
LowerLetters == "abcdefghijklmnopqrstuvwxyz"

CharAt(s, i) == SubSeq(s, i, i)
IsUpperChar(c) == \E i \in 1..Len(UpperLetters) : CharAt(UpperLetters, i) = c
IsLowerChar(c) == \E i \in 1..Len(LowerLetters) : CharAt(LowerLetters, i) = c
LowerChar(c) ==
    IF IsUpperChar(c)
    THEN CharAt(LowerLetters, CHOOSE i \in 1..Len(UpperLetters) : CharAt(UpperLetters, i) = c)
    ELSE c

\* str.lower(), character by character (the string is halved to keep the
\* recursion shallow)
RECURSIVE Lower(_)
Lower(s) ==
    IF Len(s) = 0 THEN ""
    ELSE IF Len(s) = 1 THEN LowerChar(s)
    ELSE LET h == Len(s) \div 2 IN
         Lower(SubSeq(s, 1, h)) \o Lower(SubSeq(s, h + 1, Len(s)))

\* str.isupper(): some cased character and no lower-case one
IsUpper(s) ==
    /\ \E i \in 1..Len(s) : IsUpperChar(CharAt(s, i))
    /\ \A i \in 1..Len(s) : ~IsLowerChar(CharAt(s, i))

\* str.strip(): from the first to the last non-blank character
Strip(s) ==
    LET inked == {i \in 1..Len(s) : CharAt(s, i) # " "} IN
    IF inked = {} THEN ""
    ELSE SubSeq(s, CHOOSE i \in inked : \A j \in inked : i <= j,
                   CHOOSE i \in inked : \A j \in inked : j <= i)

\* str.split(): the words between runs of blanks, in order
Split(s) ==
    LET starts == {i \in 1..Len(s) :
                      CharAt(s, i) # " " /\ (i = 1 \/ CharAt(s, i - 1) = " ")}
        EndOf(i) == CHOOSE j \in i..Len(s) :
                       /\ \A m \in i..j : CharAt(s, m) # " "
                       /\ (j = Len(s) \/ CharAt(s, j + 1) = " ")
        Nth(k) == CHOOSE i \in starts : Cardinality({j \in starts : j < i}) = k - 1
    IN  [k \in 1..Cardinality(starts) |-> SubSeq(s, Nth(k), EndOf(Nth(k)))]

\* "sub in s"
Contains(s, sub) ==
    \E i \in 1..(Len(s) - Len(sub) + 1) : SubSeq(s, i, i + Len(sub) - 1) = sub

\* s.find(sub), counted from 1 (0 when absent; the source's -1)
Find(s, sub) ==
    LET hits == {i \in 1..(Len(s) - Len(sub) + 1) : SubSeq(s, i, i + Len(sub) - 1) = sub}
    IN  IF hits = {} THEN 0 ELSE CHOOSE i \in hits : \A j \in hits : i <= j

\* s[max(0, pos - width):pos] for the match at Find position p = pos + 1
Before(s, p, width) == SubSeq(s, MaxOf(1, p - width), p - 1)

(***************************************************************************)
(* The lexicon tables.                                                     *)
(***************************************************************************)
CRISIS_KEYWORDS == <<
    [severity |-> "critical", score |-> Num(45), category |-> "crisis",
     keywords |-> <<"suicide", "kill myself", "want to die", "end my life",
                    "end it all", "better off dead", "no reason to live",
                    "take my life", "suicidal", "end it", "ending it",
                    "want to end", "going to end">>],
    [severity |-> "self_harm", score |-> Num(35), category |-> "crisis",
     keywords |-> <<"self-harm", "hurt myself", "cut myself", "harm myself",
                    "cutting", "self injury", "want to hurt">>],
    [severity |-> "severe_distress", score |-> Num(25), category |-> "severe",
     keywords |-> <<"give up", "no point", "hopeless", "worthless", "useless",
                    "failure", "can't take it", "unbearable", "falling apart",
                    "broken", "nothing matters", "why bother", "can't go on">>],
    [severity |-> "high_distress", score |-> Num(15), category |-> "high",
     keywords |-> <<"depressed", "depression", "anxious", "anxiety", "panic attack",
                    "overwhelmed", "can't cope", "breaking down", "stressed out",
                    "exhausted mentally", "losing control", "scared", "terrified",
                    "isolated", "alone", "lonely", "nobody cares">>],
    [severity |-> "moderate_concern", score |-> Num(8), category |-> "moderate",
     keywords |-> <<"stressed", "worried", "nervous", "sad", "upset", "tired",
                    "struggling", "difficult time", "hard to focus", "can't sleep",
                    "insomnia", "nightmare", "crying", "unmotivated">>],
    [severity |-> "positive_indicators", score |-> Num(0 - 10), category |-> "positive",
     keywords |-> <<"feeling better", "improving", "grateful", "thankful", "hopeful",
                    "optimistic", "proud", "accomplished", "happy", "excited",
                    "motivated", "energized", "confident", "peaceful", "relaxed",
                    "relieved", "progress", "getting better", "moving forward">>] >>

INTENSITY_PATTERNS == <<
    [word |-> "very",       multiplier |-> Dec(13, 1)],
    [word |-> "extremely",  multiplier |-> Dec(15, 1)],
    [word |-> "really",     multiplier |-> Dec(12, 1)],
    [word |-> "so",         multiplier |-> Dec(12, 1)],
    [word |-> "too",        multiplier |-> Dec(13, 1)],
    [word |-> "completely", multiplier |-> Dec(14, 1)],
    [word |-> "totally",    multiplier |-> Dec(14, 1)],
    [word |-> "absolutely", multiplier |-> Dec(14, 1)] >>

NEGATION_WORDS == <<"not", "no", "never", "neither", "nobody", "nothing", "nowhere",
                    "hardly", "barely">>

NegationFactor == Dec(3, 1)

(***************************************************************************)
(* Helper functions of the analyzer.                                      *)
(***************************************************************************)
\* the same, looking at no word before the keyword
check_negation_Blind(text, keyword) == FALSE

\* check_negation(text, keyword)
check_negation(text, keyword) ==
    LET p == Find(text, keyword) IN
    IF p = 0 THEN FALSE
    ELSE LET words == Split(Strip(Before(text, p, 10))) IN
         \E i \in DOMAIN NEGATION_WORDS : NEGATION_WORDS[i] \in Range(words)

\* the same, an intensifier halving the score instead of raising it
check_intensity_Damped(text, keyword) ==
    LET p == Find(text, keyword) IN
    IF p = 0 THEN Num(1)
    ELSE LET before_text == Lower(Before(text, p, 15))
             found == {i \in DOMAIN INTENSITY_PATTERNS :
                          Contains(before_text, INTENSITY_PATTERNS[i].word)}
         IN  IF found = {} THEN Num(1) ELSE Dec(5, 1)

\* check_intensity(text, keyword)
check_intensity(text, keyword) ==
    LET p == Find(text, keyword) IN
    IF p = 0 THEN Num(1)
    ELSE LET before_text == Lower(Before(text, p, 15))
             found == {i \in DOMAIN INTENSITY_PATTERNS :
                          Contains(before_text, INTENSITY_PATTERNS[i].word)}
         IN  IF found = {} THEN Num(1)
             ELSE INTENSITY_PATTERNS[CHOOSE i \in found : \A j \in found : i <= j].multiplier

\* the repetition loop of analyze_behavioral_patterns
HasTripleWord(words) ==
    \E i \in 1..(Len(words) - 2) : words[i] = words[i + 1] /\ words[i + 1] = words[i + 2]

crisis_questions == <<"how to", "ways to", "should i">>
crisis_words == <<"die", "end", "kill", "hurt">>

\* analyze_behavioral_patterns(text)
analyze_behavioral_patterns(text) ==
    (IF Len(text) > 10 /\ IsUpper(text) THEN 5 ELSE 0)
    + (IF Contains(text, "!!!") \/ Contains(text, "???") THEN 3 ELSE 0)
    + (IF HasTripleWord(Split(text)) THEN 5 ELSE 0)
    + 15 * Cardinality({i \in DOMAIN crisis_questions :
                          /\ Contains(text, crisis_questions[i])
                          /\ \E j \in DOMAIN crisis_words : Contains(text, crisis_words[j])})

\* determine_level(score)
determine_level(score) ==
    IF DecLeq(Num(80), score) THEN "red"
    ELSE IF DecLeq(Num(60), score) THEN "orange"
    ELSE IF DecLeq(Num(30), score) THEN "yellow"
    ELSE "green"

\* calculate_confidence(keywords, behavioral_score)
calculate_confidence(keywords, behavioral_score) ==
    IF Len(keywords) = 0 /\ behavioral_score = 0 THEN 0
    ELSE MinOf(100, Len(keywords) * 15 + behavioral_score * 2)

\* get_sentiment(keywords, score)
get_sentiment(keywords, score) ==
    IF DecLeq(Num(60), score) THEN "very_negative"
    ELSE IF DecLeq(Num(30), score) THEN "negative"
    ELSE IF DecLeq(Num(15), score) THEN "slightly_negative"
    ELSE IF \E i \in DOMAIN keywords : keywords[i].category = "positive" THEN "positive"
    ELSE "neutral"

\* generate_recommendations(level, categories)
generate_recommendations(level, categories) ==
    IF "crisis" \in categories \/ level = "red"
    THEN <<"Immediate intervention recommended",
           "Contact counselor or crisis helpline",
           "Do not leave person alone">>
    ELSE IF level = "orange"
    THEN <<"Reach out within 24 hours", "Offer support and resources",
           "Schedule counseling session">>
    ELSE IF level = "yellow"
    THEN <<"Check in with student", "Provide wellness resources", "Monitor for changes">>
    ELSE <<"Continue regular wellness checks", "Encourage positive habits">>

(***************************************************************************)
(* analyze_text: the keyword loops.  st carries the locals keyword_score, *)
(* base_score and detected_keywords.                                      *)
(***************************************************************************)
\* the body of "if keyword in text_lower" (lines 137-156)
scan_keyword(text, tier, keyword, st) ==
    LET is_negated == check_negation(text, keyword)
        negated_score == IF is_negated THEN DecMul(st.keyword_score, NegationFactor)
                         ELSE st.keyword_score
        keyword_score == DecMul(negated_score, check_intensity(text, keyword))
    IN  [keyword_score |-> keyword_score,
         base_score    |-> DecAdd(st.base_score, keyword_score),
         detected      |-> Append(st.detected,
                              [keyword  |-> keyword,
                               category |-> tier.category,
                               severity |-> tier.severity,
                               negated  |-> is_negated])]

\* "for keyword in keywords: if keyword in text_lower" (lines 135-136): only
\* the keywords found in the text change the locals, in the order of the table
RECURSIVE scan_matches(_, _, _, _)
scan_matches(text, tier, matches, st) ==
    IF matches = <<>> THEN st
    ELSE scan_matches(text, tier, Tail(matches),
                      scan_keyword(text, tier, Head(matches), st))

scan_keywords(text, tier, st) ==
    scan_matches(text, tier, SelectSeq(tier.keywords, LAMBDA k : Contains(text, k)), st)

\* "for severity_level, data in CRISIS_KEYWORDS.items()" (lines 130-133):
\* keyword_score starts from the tier's score in every tier
RECURSIVE scan_tiers(_, _, _, _)
scan_tiers(lex, text, n, st) ==
    IF n > Len(lex) THEN st
    ELSE scan_tiers(lex, text, n + 1,
             scan_keywords(text, lex[n],
                           [st EXCEPT !.keyword_score = lex[n].score]))

scan(lex, text) ==
    scan_tiers(lex, text, 1,
               [keyword_score |-> Num(0), base_score |-> Num(0), detected |-> <<>>])

\* the same without the cap at 100
clamp_score_Uncapped(base_score) == DecMax(Num(0), base_score)

\* line 163: max(0, min(100, base_score))
clamp_score(base_score) == DecMax(Num(0), DecMin(Num(100), base_score))

\* the value of a Python argument: its type and, for a str, its characters
Str(s) == [type |-> "str", value |-> s]
PyNone == [type |-> "NoneType", value |-> ""]
PyInt7 == [type |-> "int", value |-> "7"]

zero_result ==
    [score |-> Num(0), level |-> "green", keywords_detected |-> <<>>,
     sentiment |-> "neutral", needs_attention |-> FALSE, confidence |-> 0]

\* text.lower().strip() (line 112)
text_lower_of(input) == Strip(Lower(input.value))

\* the length check letting two-character texts through
too_short_Lax(text_lower) == Len(text_lower) < 2

\* len(text_lower) < 3 (line 115)
too_short(text_lower) == Len(text_lower) < 3

\* needs_attention without the crisis category
needs_attention_of_LevelOnly(level, categories_found) == level \in {"red", "orange"}

\* level in ['red', 'orange'] or 'crisis' in categories_found (line 172)
needs_attention_of(level, categories_found) ==
    level \in {"red", "orange"} \/ "crisis" \in categories_found

\* base_score after line 160, for a text that passed the length check
raw_score(lex, input) ==
    LET text_lower == text_lower_of(input) IN
    DecAdd(scan(lex, text_lower).base_score, Num(analyze_behavioral_patterns(text_lower)))

\* the same, "keyword_score *= ..." writing through to data['score']
lexicon_after_Aliased(lex, input) ==
    IF input.type # "str" \/ Len(text_lower_of(input)) < 3 THEN lex
    ELSE [n \in DOMAIN lex |->
             [lex[n] EXCEPT !.score =
                 scan_keywords(text_lower_of(input), lex[n],
                               [keyword_score |-> lex[n].score, base_score |-> Num(0),
                                detected |-> <<>>]).keyword_score]]

\* CRISIS_KEYWORDS after a call: "keyword_score = data['score']" (line 132)
\* binds a local float, and "keyword_score *= ..." (lines 143, 147) rebinds
\* that local; no statement of analyze_text assigns to the table
lexicon_after(lex, input) == lex

\* analyze_text(text, context)
analyze_text(lex, input, context) ==
    IF input.type # "str" \/ input.value = "" THEN zero_result
    ELSE LET text_lower == text_lower_of(input) IN
         IF too_short(text_lower) THEN zero_result
         ELSE LET sc == scan(lex, text_lower)
                  behavioral_score == analyze_behavioral_patterns(text_lower)
                  base_score == DecAdd(sc.base_score, Num(behavioral_score))
                  final_score == clamp_score(base_score)
                  level == determine_level(final_score)
                  categories_found == {sc.detected[i].category : i \in DOMAIN sc.detected}
              IN  [score             |-> Round2(final_score),
                   level             |-> level,
                   keywords_detected |-> sc.detected,
                   sentiment         |-> get_sentiment(sc.detected, final_score),
                   needs_attention   |-> needs_attention_of(level, categories_found),
                   confidence        |-> calculate_confidence(sc.detected, behavioral_score),
                   categories        |-> categories_found,
                   recommendations   |-> generate_recommendations(level, categories_found),
                   context           |-> context]

(***************************************************************************)
(* get_trend_analysis.  A mean is an exact fraction p / q with q > 0.     *)
(***************************************************************************)
Rat(p, q) == [p |-> p, q |-> q]
RatSub(x, y) == Rat(x.p * y.q - y.p * x.q, x.q * y.q)
RatLess(x, y) == x.p * y.q < y.p * x.q
RatMax(x, y) == IF RatLess(x, y) THEN y ELSE x
\* x / y for y > 0
RatDiv(x, y) == Rat(x.p * y.q, x.q * y.p)
RatTimes(x, k) == Rat(x.p * k, x.q)

\* round(x, 2): the nearest multiple of 0.01, ties to the even one
RoundRat2(x) ==
    LET n == (x.p * 100) \div x.q
        rem == x.p * 100 - n * x.q
    IN  Norm(Dec(IF 2 * rem > x.q \/ (2 * rem = x.q /\ n % 2 = 1) THEN n + 1 ELSE n, 2))

\* sum(log.get('score', 0) for log in logs)
RECURSIVE sum_scores(_)
sum_scores(logs) == IF logs = <<>> THEN 0 ELSE Head(logs).score + sum_scores(Tail(logs))

\* the insertion of a sort that keeps the order of arrival
insert_log_Append(sorted, log) == Append(sorted, log)

\* one step of the stable sort: log goes after the logs that are not later
RECURSIVE insert_log(_, _)
insert_log(sorted, log) ==
    IF sorted = <<>> THEN <<log>>
    ELSE IF Head(sorted).timestamp <= log.timestamp
         THEN <<Head(sorted)>> \o insert_log(Tail(sorted), log)
         ELSE <<log>> \o sorted

\* the logs taken as they come, with no sort
sorted_logs_Unsorted(logs) == logs

\* sorted(wellness_logs, key=timestamp) (line 360)
RECURSIVE sorted_logs(_)
sorted_logs(logs) ==
    IF logs = <<>> THEN <<>>
    ELSE insert_log(sorted_logs(SubSeq(logs, 1, Len(logs) - 1)), logs[Len(logs)])

\* get_trend_analysis(wellness_logs)
get_trend_analysis(wellness_logs) ==
    IF Len(wellness_logs) < 2
    THEN [trend |-> "insufficient_data", direction |-> "neutral",
          change_percentage |-> Num(0)]
    ELSE LET sorted == sorted_logs(wellness_logs)
             mid_point == Len(sorted) \div 2
             first_half == SubSeq(sorted, 1, mid_point)
             second_half == SubSeq(sorted, mid_point + 1, Len(sorted))
             avg_first == Rat(sum_scores(first_half), Len(first_half))
             avg_second == Rat(sum_scores(second_half), Len(second_half))
             change == RatSub(avg_second, avg_first)
             change_percentage == RatTimes(RatDiv(change, RatMax(avg_first, Rat(1, 1))), 100)
             rising == RatLess(Rat(10, 1), change)
             falling == RatLess(change, Rat(0 - 10, 1))
         IN  [trend |-> IF rising THEN "worsening"
                        ELSE IF falling THEN "improving" ELSE "stable",
              direction |-> IF rising THEN "up" ELSE IF falling THEN "down" ELSE "neutral",
              change_percentage |-> RoundRat2(change_percentage),
              current_average |-> RoundRat2(avg_second),
              previous_average |-> RoundRat2(avg_first)]

(***************************************************************************)
(* api/messages.py: the mental health analysis block of the send-message  *)
(* route (lines 279-318).                                                 *)
(***************************************************************************)
\* message contents: no signal, a low signal, a negated crisis keyword
\* (green, needs attention), and a yellow, an orange and a red crisis text
RouteContents == {"hello there", "so tired", "not cutting", "cutting",
                  "how to end it should i", "I want to end my life"}
Senders == {"s1", "s2"}

\* analyze_text(str(content), context='message') (line 280)
RouteAnalyses ==
    [c \in RouteContents |-> analyze_text(CRISIS_KEYWORDS, Str(c), "message")]

\* analysis['score'] > 0 (line 282)
scored(analysis) == DecLess(Num(0), analysis.score)

\* lines 311-312: check_and_send_alerts only if analysis['needs_attention']
alert_called(analysis) == scored(analysis) /\ analysis.needs_attention

\* lines 283-298
mh_log_of(user_id, analysis, t) ==
    [user_id |-> user_id, timestamp |-> t, score |-> analysis.score,
     level |-> analysis.level, needs_attention |-> analysis.needs_attention,
     context |-> "message"]

\* lines 300-309: update_one(..., upsert=True)
upsert_status(profile, user_id, level) ==
    [u \in DOMAIN profile \cup {user_id} |->
        IF u = user_id THEN level ELSE profile[u]]

(***************************************************************************)
(* api/wellness.py: the mood logging route (lines 20-212).  A date is a   *)
(* day number, day 0 being the day of hour 0; the emoji of the request    *)
(* is carried to the stores unchanged and is left out.                    *)
(***************************************************************************)
Moods == {"okay", "neutral", "sad", "depressed", "meh"}
MoodNotes == {"", "so tired", "I want to end my life"}
MoodDates == {<<>>, <<0 - 2>>, <<0>>, <<1>>}

\* analyze_text(note, context='mood_note') (line 95)
MoodNoteAnalyses ==
    [n \in MoodNotes |-> analyze_text(CRISIS_KEYWORDS, Str(n), "mood_note")]

DayOf(t) == t \div 24

\* mood_mapping.get(mood.lower(), {'score': 30, 'level': 'yellow'}) (lines 75-89)
mood_data(mood) ==
    CASE mood \in {"happy", "great"} -> [score |-> 0, level |-> "green"]
      [] mood = "okay"        -> [score |-> 20, level |-> "green"]
      [] mood = "neutral"     -> [score |-> 25, level |-> "yellow"]
      [] mood = "stressed"    -> [score |-> 50, level |-> "yellow"]
      [] mood = "worried"     -> [score |-> 55, level |-> "yellow"]
      [] mood = "sad"         -> [score |-> 60, level |-> "orange"]
      [] mood = "down"        -> [score |-> 65, level |-> "orange"]
      [] mood = "anxious"     -> [score |-> 70, level |-> "orange"]
      [] mood = "overwhelmed" -> [score |-> 80, level |-> "red"]
      [] mood = "depressed"   -> [score |-> 85, level |-> "red"]
      [] OTHER                -> [score |-> 30, level |-> "yellow"]

\* lines 89-99: the note, if any, may raise the score and replace the level
mood_assessment(mood, note, analysis) ==
    LET m == mood_data(mood) IN
    IF note # "" /\ DecLess(Num(m.score), analysis.score)
    THEN [score |-> DecMin(Num(100), DecMul(DecAdd(Num(m.score), analysis.score), Dec(5, 1))),
          level |-> analysis.level]
    ELSE [score |-> Num(m.score), level |-> m.level]

\* db.mood_entries.find_one({'user_id': ..., 'date': ...}) (lines 103-106)
find_mood_entry(entries, user_id, date) ==
    FindOne(SelectSeq(entries, LAMBDA e : e.user_id = user_id /\ e.date = date))

\* lines 108-147: update the day's entry or insert a new one
store_mood_entry(entries, user_id, mood, note, a, date, t) ==
    IF find_mood_entry(entries, user_id, date) # <<>>
    THEN [i \in DOMAIN entries |->
             IF entries[i].user_id = user_id /\ entries[i].date = date
             THEN [entries[i] EXCEPT !.mood = mood, !.note = note,
                                     !.score = Round2(a.score), !.level = a.level,
                                     !.timestamp = t]
             ELSE entries[i]]
    ELSE Append(entries, [entry_id  |-> [user_id |-> user_id, date |-> date],
                          user_id   |-> user_id,
                          mood      |-> mood,
                          note      |-> note,
                          score     |-> Round2(a.score),
                          level     |-> a.level,
                          timestamp |-> t,
                          date      |-> date])

\* lines 125-128: delete_many({'user_id': ..., 'mood_entry_id': ...})
delete_mood_logs(logs, user_id, entry_id) ==
    SelectSeq(logs, LAMBDA l : ~(/\ l.user_id = user_id
                                 /\ "mood_entry_id" \in DOMAIN l
                                 /\ l.mood_entry_id = entry_id))

\* lines 151-163
mood_mh_log(user_id, date, a, t) ==
    [user_id |-> user_id, timestamp |-> t,
     mood_entry_id |-> [user_id |-> user_id, date |-> date],
     score |-> a.score, level |-> a.level,
     sentiment |-> IF DecLess(a.score, Num(30)) THEN "positive"
                   ELSE IF DecLess(a.score, Num(60)) THEN "neutral" ELSE "negative",
     confidence |-> 85, context |-> "manual_mood_log",
     needs_attention |-> a.level \in {"orange", "red"}]

(***************************************************************************)
(* Sequential operation: one request at a time.                           *)
(***************************************************************************)
Suffix(s, old) == SubSeq(s, Len(old) + 1, Len(s))

Install(w) ==
    /\ notifications' = w.notifications
    /\ wellness_alerts' = w.wellness_alerts
    /\ email_notifications' = w.email_notifications
    /\ outbox' = w.outbox

InitRouter ==
    /\ now = 0
    /\ notifications = <<>>
    /\ wellness_alerts = <<>>
    /\ email_notifications = <<>>
    /\ outbox = <<>>
    /\ emailUp = TRUE
    /\ ncalls = 0
    /\ lastCall = <<>>

InitConcIdle ==
    /\ pc = [p \in Procs |-> "idle"]
    /\ req = [p \in Procs |-> [user_id |-> None, level |-> None, emitted |-> <<>>]]

\* the analyzer module as imported, no call made
InitAnalyzerIdle ==
    /\ lexicon = CRISIS_KEYWORDS
    /\ arg = PyNone
    /\ result = <<>>
    /\ calls = <<>>

\* no message sent yet, no trend asked for
InitRouteIdle ==
    /\ mental_health_logs = <<>>
    /\ user_wellness_profile = [u \in {} |-> None]
    /\ nsubmits = 0
    /\ lastSubmit = <<>>
    /\ mood_entries = <<>>
    /\ history = <<>>
    /\ trend = <<>>

Init ==
    /\ InitRouter
    /\ importOk \in BOOLEAN
    /\ InitConcIdle
    /\ InitAnalyzerIdle
    /\ InitRouteIdle

\* a route handler calls check_and_send_alerts(user_id, level, content, db)
CheckAndSendAlerts(user_id, level) ==
    /\ ncalls < MaxCalls
    /\ LET w == check_and_send_alerts(World, user_id, level, importOk, emailUp, now) IN
       /\ Install(w)
       /\ lastCall' = << [user_id |-> user_id,
                       level     |-> level,
                       time      |-> now,
                       known     |-> find_user(user_id) # <<>>,
                       last_sent |-> LET la == last_alert(World, user_id, level) IN
                                     IF la = <<>> THEN <<>> ELSE <<la[1].timestamp>>,
                       throttled |-> /\ find_user(user_id) # <<>>
                                     /\ should_throttle_alert(World, user_id, level, now),
                       notifs    |-> Suffix(w.notifications, notifications),
                       emails    |-> Suffix(w.outbox, outbox)] >>
    /\ ncalls' = ncalls + 1
    /\ UNCHANGED <<now, emailUp, importOk, pc, req, analyzerVars, routeVars, trendVars>>

\* the clock advances
Tick ==
    /\ now < MaxTime
    /\ now' = now + 1
    /\ UNCHANGED <<notifications, wellness_alerts, email_notifications, outbox,
                   emailUp, importOk, ncalls, lastCall, pc, req, analyzerVars, routeVars, trendVars>>

\* the mail transport goes down or comes back
TransportChange ==
    /\ emailUp' = ~emailUp
    /\ UNCHANGED <<now, notifications, wellness_alerts, email_notifications, outbox,
                   importOk, ncalls, lastCall, pc, req, analyzerVars, routeVars, trendVars>>

Next ==
    \/ \E u \in CallerIds, l \in Levels : CheckAndSendAlerts(u, l)
    \/ Tick
    \/ TransportChange

Spec == Init /\ [][Next]_vars

(***************************************************************************)
(* Concurrent operation: two requests run check_and_send_alerts at once   *)
(* (eventlet switches between requests at the database calls).            *)
(***************************************************************************)
\* a request enters check_and_send_alerts(user_id, level, content, db)
Begin(p, user_id, level) ==
    /\ pc[p] = "idle"
    /\ pc' = [pc EXCEPT ![p] = "find_user"]
    /\ req' = [req EXCEPT ![p] = [user_id |-> user_id, level |-> level,
                                  emitted |-> <<>>]]
    /\ UNCHANGED <<routerVars, analyzerVars, routeVars, trendVars>>

\* line 27-29: user = db.users.find_one(...); if not user: return
FindUserStep(p) ==
    /\ pc[p] = "find_user"
    /\ pc' = [pc EXCEPT ![p] = IF find_user(req[p].user_id) = <<>>
                               THEN "done" ELSE "throttle_check"]
    /\ UNCHANGED <<routerVars, req, analyzerVars, routeVars, trendVars>>

\* line 32-34: if should_throttle_alert(user_id, level, db): return
ThrottleCheck(p) ==
    /\ pc[p] = "throttle_check"
    /\ pc' = [pc EXCEPT ![p] =
                 IF should_throttle_alert(World, req[p].user_id, req[p].level, now)
                 THEN "done" ELSE "dispatch"]
    /\ UNCHANGED <<routerVars, req, analyzerVars, routeVars, trendVars>>

\* line 37-42: send_critical_alert / send_high_concern_alert / send_monitor_alert
Dispatch(p) ==
    /\ pc[p] = "dispatch"
    /\ LET w == dispatch_alert(World, req[p].user_id, req[p].level,
                               importOk, emailUp, now) IN
       /\ Install(w)
       /\ req' = [req EXCEPT ![p].emitted = Suffix(w.notifications, notifications)]
    /\ pc' = [pc EXCEPT ![p] = "log"]
    /\ UNCHANGED <<now, emailUp, importOk, ncalls, lastCall, analyzerVars, routeVars, trendVars>>

\* line 45: log_alert_sent(user_id, level, db)
LogAlert(p) ==
    /\ pc[p] = "log"
    /\ Install(log_alert_sent(World, req[p].user_id, req[p].level, now))
    /\ pc' = [pc EXCEPT ![p] = "done"]
    /\ UNCHANGED <<now, emailUp, importOk, ncalls, lastCall, req, analyzerVars, routeVars, trendVars>>

NextConc ==
    \/ \E p \in Procs, u \in CallerIds, l \in Levels : Begin(p, u, l)
    \/ \E p \in Procs : FindUserStep(p)
    \/ \E p \in Procs : ThrottleCheck(p)
    \/ \E p \in Procs : Dispatch(p)
    \/ \E p \in Procs : LogAlert(p)
    \/ Tick

SpecConc == Init /\ [][NextConc]_vars

(***************************************************************************)
(* The analyzer as a function: one analyze_text call on each input.       *)
(***************************************************************************)
AllKeywords == UNION {Range(CRISIS_KEYWORDS[n].keywords) : n \in DOMAIN CRISIS_KEYWORDS}

\* every keyword alone, negated, and intensified
KeywordTexts ==
    AllKeywords \cup {"not " \o k : k \in AllKeywords}
                \cup {"extremely " \o k : k \in AllKeywords}

\* texts of up to MaxPhrases phrases; the n-th phrase, when present, is the
\* n-th keyword of the pool behind an optional negation and intensifier
PhrasePool == <<"cutting", "proud", "happy", "sad", "suicide">>
Decorations == {"", "not ", "so ", "very ", "extremely ",
                "not so ", "not very ", "not extremely "}
Join(a, b) == IF a = "" THEN b ELSE a \o " " \o b

RECURSIVE PhraseTexts(_)
PhraseTexts(n) ==
    IF n = 0 THEN {""}
    ELSE LET shorter == PhraseTexts(n - 1) IN
         shorter \cup {Join(t, d \o PhrasePool[n]) : t \in shorter, d \in Decorations}

\* messages with capitals, punctuation, repetition and crisis questions
OtherTexts ==
    {"I want to end my life", "I am not sad at all, just a bit tired",
     "feeling great and grateful today", "help help help me!!!",
     "how to end it should i", "HOW TO END IT ALL", "Stressed Out",
     "nobody cares", "  hi ", "ok", "not unmotivated", "why???", "   ", "a b",
     "very sad very upset", "not sad so upset",
     "I AM STRESSED OUT", "how to cook", "how to hurt"}

Contexts == {"message", "community_post"}

TextInputs ==
    {Str(t) : t \in KeywordTexts \cup PhraseTexts(MaxPhrases) \cup OtherTexts}
        \cup {PyNone, PyInt7}

InitAnalyze ==
    /\ InitRouter
    /\ importOk = TRUE
    /\ InitConcIdle
    /\ lexicon = CRISIS_KEYWORDS
    /\ arg \in TextInputs
    /\ result = <<>>
    /\ calls = <<>>
    /\ InitRouteIdle

\* analyze_text(arg, 'message')
AnalyzeText ==
    /\ result = <<>>
    /\ result' = <<analyze_text(lexicon, arg, "message")>>
    /\ lexicon' = lexicon_after(lexicon, arg)
    /\ UNCHANGED <<routerVars, concVars, arg, calls, routeVars, trendVars>>

NextAnalyze == AnalyzeText

SpecAnalyze == InitAnalyze /\ [][NextAnalyze]_vars

(***************************************************************************)
(* The analyzer as a shared module: a sequence of analyze_text calls on   *)
(* the same process, each reading the table the previous calls left.      *)
(***************************************************************************)
PureTexts == {"not sad", "so sad", "I want to end my life", "not very happy", "hi"}

InitPure ==
    /\ InitRouter
    /\ importOk = TRUE
    /\ InitConcIdle
    /\ InitAnalyzerIdle
    /\ InitRouteIdle

\* analyze_text(text, context)
AnalyzeCall(text, context) ==
    /\ Len(calls) < MaxAnalyses
    /\ calls' = Append(calls, [text    |-> text,
                               context |-> context,
                               result  |-> analyze_text(lexicon, Str(text), context)])
    /\ lexicon' = lexicon_after(lexicon, Str(text))
    /\ UNCHANGED <<routerVars, concVars, arg, result, routeVars, trendVars>>

NextPure == \E t \in PureTexts, c \in Contexts : AnalyzeCall(t, c)

SpecPure == InitPure /\ [][NextPure]_vars

(***************************************************************************)
(* Messages sent through the route while store operations may fail.       *)
(***************************************************************************)
\* POST /<conv_id>/send, lines 279-318; analysis is the value line 280
\* computed for content, and the fault strikes inside check_and_send_alerts
SendMessage(user_id, content, analysis, fault) ==
    /\ nsubmits < MaxSubmits
    /\ fault # "none" => alert_called(analysis)
    /\ LET alert == IF alert_called(analysis)
                    THEN check_and_send_alerts_under(World, user_id, analysis.level,
                                                     importOk, emailUp, now, fault)
                    ELSE [w |-> World, raised |-> FALSE, failed |-> FALSE]
           \* an exception leaving line 312 skips line 314 (except at line 316)
           encouraged == scored(analysis) /\ ~alert.raised
           w == IF encouraged
                THEN send_student_encouragement(alert.w, user_id, analysis.level, now)
                ELSE alert.w
       IN  /\ Install(w)
           /\ mental_health_logs' =
                 IF scored(analysis)
                 THEN Append(mental_health_logs, mh_log_of(user_id, analysis, now))
                 ELSE mental_health_logs
           /\ user_wellness_profile' =
                 IF scored(analysis)
                 THEN upsert_status(user_wellness_profile, user_id, analysis.level)
                 ELSE user_wellness_profile
           /\ lastSubmit' = << [path      |-> "message",
                                user_id   |-> user_id,
                                content   |-> content,
                                fault     |-> fault,
                                email_up  |-> emailUp,
                                time      |-> now,
                                analysis  |-> analysis,
                                called    |-> alert_called(analysis),
                                throttled |-> should_throttle_alert(World, user_id,
                                                                    analysis.level, now),
                                failed    |-> alert.failed,
                                raised    |-> alert.raised,
                                notifs    |-> Suffix(w.notifications, notifications),
                                emails    |-> Suffix(w.outbox, outbox),
                                logged    |-> Suffix(w.wellness_alerts, wellness_alerts),
                                status    |-> 201] >>
    /\ nsubmits' = nsubmits + 1
    /\ UNCHANGED <<now, emailUp, importOk, ncalls, lastCall, concVars, analyzerVars,
                   trendVars, mood_entries>>

NextRoute ==
    \/ \E u \in Senders, c \in RouteContents, f \in Faults :
          SendMessage(u, c, RouteAnalyses[c], f)
    \/ TransportChange

SpecRoute == Init /\ [][NextRoute]_vars

(***************************************************************************)
(* Students log moods and send messages; both routes append to the        *)
(* history store.                                                          *)
(***************************************************************************)
\* POST /mood by the student user_id; analysis is the value line 95 computes
\* for the note
LogMood(user_id, mood, note, analysis, given) ==
    /\ nsubmits < MaxSubmits
    /\ nsubmits' = nsubmits + 1
    /\ IF given # <<>> /\ given[1] > DayOf(now)
       THEN \* lines 62-64: a date in the future is refused
            /\ lastSubmit' = << [path |-> "mood", user_id |-> user_id, status |-> 400] >>
            /\ UNCHANGED <<notifications, wellness_alerts, email_notifications, outbox,
                           mental_health_logs, user_wellness_profile, mood_entries>>
       ELSE LET date == IF given # <<>> THEN given[1] ELSE DayOf(now)
                a == mood_assessment(mood, note, analysis)
                existing == find_mood_entry(mood_entries, user_id, date)
                logs == IF existing # <<>>
                        THEN delete_mood_logs(mental_health_logs, user_id,
                                              existing[1].entry_id)
                        ELSE mental_health_logs
                days_difference == DayOf(now) - date
                alerted == IF a.level \in {"orange", "red"} /\ days_difference <= 1
                           THEN check_and_send_alerts(World, user_id, a.level,
                                                      importOk, emailUp, now)
                           ELSE World
                w == IF days_difference <= 1
                     THEN send_student_encouragement(alerted, user_id, a.level, now)
                     ELSE alerted
            IN  /\ Install(w)
                /\ mood_entries' = store_mood_entry(mood_entries, user_id, mood, note,
                                                    a, date, now)
                /\ mental_health_logs' = Append(logs, mood_mh_log(user_id, date, a, now))
                /\ user_wellness_profile' =
                       upsert_status(user_wellness_profile, user_id, a.level)
                /\ lastSubmit' = << [path     |-> "mood",
                                     user_id  |-> user_id,
                                     mood     |-> mood,
                                     note     |-> note,
                                     date     |-> date,
                                     replaced |-> existing # <<>>,
                                     score    |-> a.score,
                                     level    |-> a.level,
                                     status   |-> IF existing # <<>> THEN 200 ELSE 201] >>
    /\ UNCHANGED <<now, emailUp, importOk, ncalls, lastCall, concVars, analyzerVars,
                   trendVars>>

NextMood ==
    \/ \E u \in Senders, m \in Moods, n \in MoodNotes, d \in MoodDates :
          LogMood(u, m, n, MoodNoteAnalyses[n], d)
    \/ \E u \in Senders, c \in RouteContents :
          SendMessage(u, c, RouteAnalyses[c], "none")

SpecMood == Init /\ [][NextMood]_vars

(***************************************************************************)
(* get_trend_analysis as a function: one call on each history.            *)
(***************************************************************************)
TrendScores == {0, 10, 11, 30}
LogTimes == 1..2
Logs == [timestamp : LogTimes, score : TrendScores]

\* the histories of up to MaxHistory logs, in any order of timestamps
Histories == UNION {[1..n -> Logs] : n \in 0..MaxHistory}

InitTrend ==
    /\ InitRouter
    /\ importOk = TRUE
    /\ InitConcIdle
    /\ InitAnalyzerIdle
    /\ mental_health_logs = <<>>
    /\ user_wellness_profile = [u \in {} |-> None]
    /\ nsubmits = 0
    /\ lastSubmit = <<>>
    /\ mood_entries = <<>>
    /\ history \in Histories
    /\ trend = <<>>

\* get_trend_analysis(history)
GetTrendAnalysis ==
    /\ trend = <<>>
    /\ trend' = <<get_trend_analysis(history)>>
    /\ UNCHANGED <<routerVars, concVars, analyzerVars, routeVars, history>>

NextTrend == GetTrendAnalysis

SpecTrend == InitTrend /\ [][NextTrend]_vars

(***************************************************************************)
(* get_trend_analysis on histories whose logs have distinct timestamps,   *)
(* given in every order.                                                   *)
(***************************************************************************)
DistinctTimes(n) ==
    {p \in [1..n -> 1..MaxHistory] : \A i, j \in 1..n : i # j => p[i] # p[j]}

\* the history of n logs with the timestamps p and the scores sc
history_of(n, p, sc) == [i \in 1..n |-> [timestamp |-> p[i], score |-> sc[i]]]

InitPermuted ==
    /\ InitRouter
    /\ importOk = TRUE
    /\ InitConcIdle
    /\ InitAnalyzerIdle
    /\ mental_health_logs = <<>>
    /\ user_wellness_profile = [u \in {} |-> None]
    /\ nsubmits = 0
    /\ lastSubmit = <<>>
    /\ mood_entries = <<>>
    /\ \E n \in 0..MaxHistory :
          \E p \in DistinctTimes(n), sc \in [1..n -> TrendScores] :
             history = history_of(n, p, sc)
    /\ trend = <<>>

SpecPermuted == InitPermuted /\ [][NextTrend]_vars

(***************************************************************************)
(* One student over more than a day: long enough for every cooldown to    *)
(* run out.                                                                *)
(***************************************************************************)
LongTick ==
    /\ now < MaxLongTime
    /\ now' = now + 1
    /\ UNCHANGED <<notifications, wellness_alerts, email_notifications, outbox,
                   emailUp, importOk, ncalls, lastCall, pc, req, analyzerVars, routeVars, trendVars>>

NextCooldown ==
    \/ \E l \in Levels \ {"green"} : CheckAndSendAlerts("s1", l)
    \/ LongTick

SpecCooldown == Init /\ [][NextCooldown]_vars

(***************************************************************************)
(* Properties of the alert router.                                        *)
(***************************************************************************)
AlertLevels == {"red", "orange", "yellow"}
StaffAlertTypes == {"critical_wellness_alert", "high_concern_alert", "monitor_alert"}

\* the throttle windows as the specification states them
SpecWindow(level) == CASE level = "red" -> 2 [] level = "orange" -> 6
                       [] level = "yellow" -> 24

\* the notifications that were there before the last call
NotifsBefore(c) == SubSeq(notifications, 1, Len(notifications) - Len(c.notifs))

\* a staff alert about (user_id, level) emitted less than a window before time t
EmittedWithinWindow(log, user_id, level, t) ==
    \E i \in DOMAIN log :
        /\ log[i].type \in StaffAlertTypes
        /\ log[i].student_id = user_id
        /\ log[i].level = level
        /\ t - log[i].timestamp < SpecWindow(level)

\* C1: once a call has emitted staff alerts for (U, L), a later call for (U, L)
\* less than window(L) after it (red 2h, orange 6h, yellow 24h) emits no staff
\* notification at all.
C1_Throttled ==
    \A k \in DOMAIN lastCall :
        LET c == lastCall[k] IN
        (/\ c.level \in AlertLevels
         /\ EmittedWithinWindow(NotifsBefore(c), c.user_id, c.level, c.time))
        => (c.notifs = <<>> /\ c.emails = <<>>)

\* a red call one hour after a red emission for the same user was suppressed
C1_Witness ==
    \E k \in DOMAIN lastCall :
        LET c == lastCall[k] IN
        /\ c.level = "red"
        /\ c.throttled
        /\ c.notifs = <<>>
        /\ \E i \in DOMAIN notifications :
              /\ notifications[i].student_id = c.user_id
              /\ notifications[i].level = "red"
              /\ c.time - notifications[i].timestamp = 1

\* C2: two concurrent calls for the same (user, level) starting from idle never
\* both emit staff alerts: no two requests for one key have both emitted within
\* one throttle window of each other.
C2_Serialized ==
    \A p, q \in Procs :
        (/\ p # q
         /\ req[p].user_id = req[q].user_id
         /\ req[p].level = req[q].level
         /\ req[p].level \in AlertLevels
         /\ req[p].emitted # <<>>
         /\ req[q].emitted # <<>>)
        => \/ req[p].emitted[1].timestamp - req[q].emitted[1].timestamp
                 >= SpecWindow(req[p].level)
           \/ req[q].emitted[1].timestamp - req[p].emitted[1].timestamp
                 >= SpecWindow(req[p].level)


\* the fan-out table as the specification states it
SpecRoles(level) == CASE level = "red" -> {"teacher", "counselor", "admin"}
                      [] level = "orange" -> {"counselor", "admin"}
                      [] level = "yellow" -> {"admin"}
SpecPriority(level) == CASE level = "red" -> "urgent" [] level = "orange" -> "high"
                         [] level = "yellow" -> "normal"

\* C3: an un-throttled alert at level L creates exactly one in-app alert
\* notification for every staff user whose role is in roles(L), at the priority
\* of L, and none for any other user.
C3_FanOut ==
    \A k \in DOMAIN lastCall :
        LET c == lastCall[k] IN
        (c.known /\ ~c.throttled /\ c.level \in AlertLevels)
        => /\ \A i \in DOMAIN users :
                Cardinality({j \in DOMAIN c.notifs :
                                c.notifs[j].recipient_id = users[i].user_id})
                  = IF users[i].role \in SpecRoles(c.level) THEN 1 ELSE 0
           /\ \A j \in DOMAIN c.notifs :
                /\ c.notifs[j].type \in StaffAlertTypes
                /\ c.notifs[j].priority = SpecPriority(c.level)
                /\ c.notifs[j].student_id = c.user_id
                /\ c.notifs[j].level = c.level
                /\ \E i \in DOMAIN users : users[i].user_id = c.notifs[j].recipient_id

\* an un-throttled orange alert went to the counselor and the admin only
C3_Witness ==
    \E k \in DOMAIN lastCall :
        LET c == lastCall[k] IN
        /\ c.known /\ ~c.throttled /\ c.level = "orange"
        /\ {c.notifs[j].recipient_id : j \in DOMAIN c.notifs} = {"c1", "a1"}
        /\ Len(c.notifs) = 2

\* C9: no recipient is sent two emails of the same alert type less than 2 hours
\* apart, for orange and red alerts alike.
C9_EmailRateLimit ==
    \A i, j \in DOMAIN outbox :
        (i < j /\ outbox[i].to = outbox[j].to
               /\ outbox[i].email_type = outbox[j].email_type)
        => outbox[j].timestamp - outbox[i].timestamp >= 2

\* C10: a yellow alert never uses the email channel: no email is sent for it and
\* none is attempted.
C10_YellowNoEmail ==
    /\ \A k \in DOMAIN lastCall :
          lastCall[k].level = "yellow" => lastCall[k].emails = <<>>
    /\ \A i \in DOMAIN outbox :
          outbox[i].level # "yellow" /\ outbox[i].email_type # "monitor_alert"
    /\ \A i \in DOMAIN email_notifications :
          email_notifications[i].email_type # "monitor_alert"

\* an un-throttled yellow alert notified the admin in-app while the transport was
\* up and the notification manager importable
C10_Witness ==
    \E k \in DOMAIN lastCall :
        LET c == lastCall[k] IN
        /\ c.level = "yellow" /\ c.known /\ ~c.throttled
        /\ Len(c.notifs) = 1
        /\ c.notifs[1].type = "monitor_alert"
        /\ emailUp /\ importOk
        /\ c.emails = <<>>

\* C12: the first call for (U, L) made when at least window(L) has passed
\* since the last throttle record of (U, L) is not suppressed, emits the staff
\* alerts of level L again, and leaves a throttle record dated at that call.
C12_CooldownExpiry ==
    \A i \in DOMAIN lastCall :
        LET c == lastCall[i] IN
        (/\ c.known
         /\ c.level \in AlertLevels
         /\ c.last_sent # <<>>
         /\ c.time - c.last_sent[1] >= SpecWindow(c.level)) =>
            /\ ~c.throttled
            /\ \E k \in DOMAIN c.notifs :
                  /\ c.notifs[k].type \in StaffAlertTypes
                  /\ c.notifs[k].student_id = c.user_id
                  /\ c.notifs[k].level = c.level
            /\ last_alert(World, c.user_id, c.level) =
                  << [user_id |-> c.user_id, level |-> c.level, timestamp |-> c.time] >>

\* a yellow call made exactly 24 hours after the previous yellow alert
C12_Witness ==
    /\ lastCall # <<>>
    /\ lastCall[1].level = "yellow"
    /\ lastCall[1].last_sent # <<>>
    /\ lastCall[1].time - lastCall[1].last_sent[1] = 24
    /\ lastCall[1].notifs # <<>>

\* C11: a call of check_and_send_alerts with level green creates no staff
\* notification and sends no email, whatever the throttle state.
C11_GreenSilent ==
    (lastCall # <<>> /\ lastCall[1].level = "green") =>
        /\ lastCall[1].notifs = <<>>
        /\ lastCall[1].emails = <<>>

\* a green call for a known student went past the throttle check and through
\* the dispatch (it left its record in the throttle log)
C11_Witness ==
    /\ lastCall # <<>>
    /\ lastCall[1].level = "green"
    /\ lastCall[1].known
    /\ ~lastCall[1].throttled
    /\ \E i \in DOMAIN wellness_alerts :
          /\ wellness_alerts[i].user_id = lastCall[1].user_id
          /\ wellness_alerts[i].level = "green"
          /\ wellness_alerts[i].timestamp = lastCall[1].time

\* C21: a throttle record of (U, L) is written only by a call that emitted at
\* least one staff alert at level L for U: every record of the throttle log
\* has a staff notification about that user, at that level, of that time.
C21_LoggedOnlyIfEmitted ==
    \A i \in DOMAIN wellness_alerts :
        \E k \in DOMAIN notifications :
            /\ notifications[k].type \in StaffAlertTypes
            /\ notifications[k].student_id = wellness_alerts[i].user_id
            /\ notifications[k].level = wellness_alerts[i].level
            /\ notifications[k].timestamp = wellness_alerts[i].timestamp

\* the call that has just been made, in the step that makes it
CallStep == ncalls' = ncalls + 1 /\ lastCall' # <<>>

\* lastSentAt(U, L) as the specification defines it: the time of the newest
\* throttle record of (user_id, level) in a throttle log, <<>> if there is none
LastSentAt(log, user_id, level) ==
    LET ts == {log[i].timestamp : i \in {j \in DOMAIN log : /\ log[j].user_id = user_id
                                                           /\ log[j].level = level}}
    IN  IF ts = {} THEN <<>> ELSE << CHOOSE t \in ts : \A x \in ts : x <= t >>

\* C22: a call that finds (U, L) cooling down creates no notification, sends
\* and logs no email and leaves the throttle log as it was.
C22_SuppressedIsNoOp ==
    [][(CallStep /\ lastCall'[1].throttled) =>
          /\ notifications' = notifications
          /\ outbox' = outbox
          /\ email_notifications' = email_notifications
          /\ wellness_alerts' = wellness_alerts
          /\ LastSentAt(wellness_alerts', lastCall'[1].user_id, lastCall'[1].level)
                = LastSentAt(wellness_alerts, lastCall'[1].user_id, lastCall'[1].level)]_vars

\* an orange call was suppressed two hours after the orange alert whose
\* throttle record is still the newest one
C22_Witness ==
    /\ lastCall # <<>>
    /\ lastCall[1].level = "orange"
    /\ lastCall[1].throttled
    /\ lastCall[1].last_sent # <<>>
    /\ lastCall[1].time - lastCall[1].last_sent[1] = 2
    /\ LastSentAt(wellness_alerts, lastCall[1].user_id, "orange") =
          << lastCall[1].last_sent[1] >>

\* C23: a call for (U, L) is suppressed only if the throttle log holds a
\* record of the same user at the same level less than window(L) old, and it
\* changes the newest throttle record of no other (user, level).
C23_KeyedByUserAndLevel ==
    [][CallStep =>
          LET c == lastCall'[1] IN
          /\ c.throttled =>
                \E i \in DOMAIN wellness_alerts :
                    /\ wellness_alerts[i].user_id = c.user_id
                    /\ wellness_alerts[i].level = c.level
                    /\ c.time - wellness_alerts[i].timestamp < throttle_hours(c.level)
          /\ \A u \in CallerIds, l \in Levels :
                (u # c.user_id \/ l # c.level) =>
                    LastSentAt(wellness_alerts', u, l) = LastSentAt(wellness_alerts, u, l)]_vars

\* a red call one hour after an orange alert for the same student was not
\* suppressed and emitted the red alerts; the orange record is unchanged
C23_Witness ==
    /\ lastCall # <<>>
    /\ lastCall[1].level = "red"
    /\ ~lastCall[1].throttled
    /\ lastCall[1].notifs # <<>>
    /\ LastSentAt(wellness_alerts, lastCall[1].user_id, "orange") =
          << lastCall[1].time - 1 >>

\* C28: every staff recipient of an un-throttled red or orange alert gets the
\* in-app notification, whatever happens to the email (sent, rate-limited,
\* switched off by the recipient, transport down, no email path at all).
C28_InAppAlways ==
    \A k \in DOMAIN lastCall :
        LET c == lastCall[k] IN
        (c.known /\ ~c.throttled /\ c.level \in {"red", "orange"}) =>
            \A i \in DOMAIN users :
                users[i].role \in SpecRoles(c.level) =>
                    \E j \in DOMAIN c.notifs :
                        /\ c.notifs[j].recipient_id = users[i].user_id
                        /\ c.notifs[j].student_id = c.user_id
                        /\ c.notifs[j].level = c.level

\* a red alert about s2 within two hours of a red alert email to the
\* counselor: no email went out (the counselor rate-limited, the admin
\* switched off, the teacher without address) and all three were notified
C28_Witness ==
    /\ importOk
    /\ emailUp
    /\ lastCall # <<>>
    /\ lastCall[1].level = "red"
    /\ lastCall[1].user_id = "s2"
    /\ ~lastCall[1].throttled
    /\ lastCall[1].emails = <<>>
    /\ \E i \in DOMAIN outbox :
          /\ outbox[i].to = "c1@x"
          /\ outbox[i].email_type = "critical_wellness_alert"
          /\ lastCall[1].time - outbox[i].timestamp < 2
    /\ {lastCall[1].notifs[j].recipient_id : j \in DOMAIN lastCall[1].notifs}
          = {"t1", "c1", "a1"}

\* C29: with the email path available, an un-throttled red alert about a
\* student is emailed to every eligible staff recipient (an address, the email
\* type not switched off) to whom no alert email about that same student was
\* sent in the 2 hours before; earlier emails about other students do not
\* matter.
C29_PerStudentEmail ==
    [][(CallStep /\ importOk /\ emailUp) =>
          LET c == lastCall'[1] IN
          (c.known /\ ~c.throttled /\ c.level = "red") =>
              \A i \in DOMAIN users :
                  (/\ users[i].role \in SpecRoles("red")
                   /\ users[i].email # None
                   /\ email_enabled(find_profile(users[i].user_id), "critical_wellness_alert")
                   /\ ~\E e \in DOMAIN outbox :
                          /\ outbox[e].to = users[i].email
                          /\ outbox[e].student_id = c.user_id
                          /\ c.time - outbox[e].timestamp <= 2) =>
                      \E j \in DOMAIN c.emails :
                          /\ c.emails[j].to = users[i].email
                          /\ c.emails[j].student_id = c.user_id]_vars

\* C30: every record of mental_health_logs, whichever route appended it, has
\* the level of its score's threshold (<30 green, 30-59 yellow, 60-79 orange,
\* >=80 red).
C30_HistoryConsistent ==
    \A i \in DOMAIN mental_health_logs :
        mental_health_logs[i].level =
            (IF DecLess(mental_health_logs[i].score, Num(30)) THEN "green"
             ELSE IF DecLess(mental_health_logs[i].score, Num(60)) THEN "yellow"
             ELSE IF DecLess(mental_health_logs[i].score, Num(80)) THEN "orange"
             ELSE "red")

\* the staff alerts among the notifications a submission created
StaffNotifs(c) == {k \in DOMAIN c.notifs : c.notifs[k].type \in StaffAlertTypes}
Encouragements(c) == {k \in DOMAIN c.notifs : c.notifs[k].type = "wellness_encouragement"}

\* C13: whichever store operation fails inside check_and_send_alerts, the
\* call returns without raising, the route answers 201, and the analysis of
\* the message is the one computed before the call (also in the stored log).
C13_NonFatal ==
    \A i \in DOMAIN lastSubmit :
        LET c == lastSubmit[i] IN
        (c.called /\ c.fault # "none") =>
            /\ ~c.raised
            /\ c.status = 201
            /\ c.analysis = RouteAnalyses[c.content]
            /\ mental_health_logs # <<>>
            /\ mental_health_logs[Len(mental_health_logs)] =
                  [user_id |-> c.user_id, timestamp |-> c.time,
                   score |-> c.analysis.score, level |-> c.analysis.level,
                   needs_attention |-> c.analysis.needs_attention,
                   context |-> "message"]

\* the insert into the throttle log failed after the staff had been notified
C13_Witness ==
    /\ lastSubmit # <<>>
    /\ lastSubmit[1].fault = "alerts_write"
    /\ lastSubmit[1].failed
    /\ ~lastSubmit[1].raised
    /\ StaffNotifs(lastSubmit[1]) # {}
    /\ lastSubmit[1].logged = <<>>

\* C14: when the notification or the email transport fails during an
\* un-throttled dispatch, the throttle record of (user, level) is written as
\* after a successful send.
C14_AttemptLogged ==
    \A i \in DOMAIN lastSubmit :
        LET c == lastSubmit[i] IN
        (/\ c.called
         /\ ~c.throttled
         /\ c.analysis.level \in AlertLevels
         /\ \/ c.fault = "notifications_write"
            \/ c.fault = "none" /\ ~c.email_up) =>
            c.logged = << [user_id |-> c.user_id, level |-> c.analysis.level,
                           timestamp |-> c.time] >>

\* C15: when the throttle state cannot be read while an orange or red result
\* is routed, the staff alert is still dispatched.
C15_FailOpen ==
    \A i \in DOMAIN lastSubmit :
        LET c == lastSubmit[i] IN
        (/\ c.called
         /\ c.fault = "alerts_read"
         /\ c.analysis.level \in {"orange", "red"}) =>
            StaffNotifs(c) # {}

\* C27: every message whose analysis has needs_attention and whose (user,
\* level) throttle is idle makes at least one staff notification (teacher,
\* counselor and admin users exist; no store operation fails).
C27_AttentionNotified ==
    \A i \in DOMAIN lastSubmit :
        LET c == lastSubmit[i] IN
        (/\ c.analysis.needs_attention
         /\ c.fault = "none"
         /\ ~c.throttled
         /\ \A r \in {"teacher", "counselor", "admin"} : find_users_by_role({r}) # <<>>) =>
            StaffNotifs(c) # {}

\* C16: every message with a positive score creates exactly one encouragement
\* notification, addressed to the sender at the level of the analysis, whether
\* the staff alert was sent, throttled or failed.
C16_Encouraged ==
    \A i \in DOMAIN lastSubmit :
        LET c == lastSubmit[i] IN
        scored(c.analysis) =>
            /\ Cardinality(Encouragements(c)) = 1
            /\ \A k \in Encouragements(c) :
                  /\ c.notifs[k].recipient_id = c.user_id
                  /\ c.notifs[k].level = c.analysis.level
                  /\ c.notifs[k].timestamp = c.time

\* a second red message of the same student: the staff alert is throttled
\* and the encouragement is sent again
C16_Witness ==
    /\ lastSubmit # <<>>
    /\ lastSubmit[1].called
    /\ lastSubmit[1].fault = "none"
    /\ lastSubmit[1].throttled
    /\ lastSubmit[1].analysis.level = "red"
    /\ StaffNotifs(lastSubmit[1]) = {}
    /\ Cardinality(Encouragements(lastSubmit[1])) = 1
    /\ \E k \in DOMAIN notifications :
          /\ k <= Len(notifications) - Len(lastSubmit[1].notifs)
          /\ notifications[k].type = "wellness_encouragement"
          /\ notifications[k].recipient_id = lastSubmit[1].user_id
          /\ notifications[k].level = "red"

(***************************************************************************)
(* Properties of the trend analysis.                                      *)
(***************************************************************************)
\* the position of the i-th log in the time-ordered history (logs of equal
\* time keep their order)
TimeRank(h, i) ==
    1 + Cardinality({j \in DOMAIN h :
                        \/ h[j].timestamp < h[i].timestamp
                        \/ h[j].timestamp = h[i].timestamp /\ j < i})

\* the sum of the scores of the logs at the positions lo..hi of the
\* time-ordered history
RECURSIVE SumOver(_, _)
SumOver(h, idx) ==
    IF idx = {} THEN 0
    ELSE LET i == CHOOSE i \in idx : TRUE IN h[i].score + SumOver(h, idx \ {i})

Ascending(h) ==
    [k \in DOMAIN h |-> h[CHOOSE i \in DOMAIN h : TimeRank(h, i) = k]]

\* the logs of h, newest first (the order of the dashboard's query)
Descending(h) == [k \in DOMAIN h |-> Ascending(h)[Len(h) + 1 - k]]

\* C26: for a history with distinct timestamps, given in any order, the
\* result of get_trend_analysis is the result for the same logs oldest first,
\* and the result for the same logs newest first: every permutation of a
\* history gets the same result.
C26_OrderIndependent ==
    trend # <<>> =>
        /\ trend[1] = get_trend_analysis(Ascending(history))
        /\ trend[1] = get_trend_analysis(Descending(history))

\* four logs given newest first, whose order decides the result: oldest
\* first the scores rise from 0, 0 to 30, 30
C26_Witness ==
    /\ trend # <<>>
    /\ history = << [timestamp |-> 4, score |-> 30], [timestamp |-> 3, score |-> 30],
                    [timestamp |-> 2, score |-> 0], [timestamp |-> 1, score |-> 0] >>
    /\ trend[1].trend = "worsening"
    /\ trend[1].current_average = Num(30)
    /\ trend[1].previous_average = Num(0)

(***************************************************************************)
(* Properties of the analyzer.                                            *)
(***************************************************************************)
\* the thresholds of the specification: <30 green, 30-59 yellow, 60-79
\* orange, >=80 red
SpecLevel(score) ==
    IF DecLess(score, Num(30)) THEN "green"
    ELSE IF DecLess(score, Num(60)) THEN "yellow"
    ELSE IF DecLess(score, Num(80)) THEN "orange"
    ELSE "red"

ScoreOf(text) == analyze_text(lexicon, Str(text), "message").score
RawOf(text) == raw_score(lexicon, Str(text))

\* C4: the score of every result lies in [0, 100], whatever keywords,
\* negations, intensifiers and behavioural signals the text combines.
C4_ScoreInRange ==
    result # <<>> =>
        /\ DecLeq(Num(0), result[1].score)
        /\ DecLeq(result[1].score, Num(100))

\* a text whose raw sum exceeds 100 was analyzed and scored exactly 100
C4_Witness ==
    /\ result # <<>>
    /\ arg.type = "str"
    /\ Len(text_lower_of(arg)) >= 3
    /\ DecLess(Num(100), raw_score(lexicon, arg))
    /\ result[1].score = Num(100)

\* C5: in every result, level is the step function of the returned score
\* (green < 30 <= yellow < 60 <= orange < 80 <= red).
C5_LevelStep ==
    result # <<>> => result[1].level = SpecLevel(result[1].score)

\* C17: in every result, needs_attention is true exactly when the level is
\* orange or red or a matched keyword has the category crisis.
C17_NeedsAttention ==
    result # <<>> =>
        (result[1].needs_attention <=>
            \/ result[1].level \in {"orange", "red"}
            \/ \E i \in DOMAIN result[1].keywords_detected :
                  result[1].keywords_detected[i].category = "crisis")

\* a negated crisis keyword: the level is green and attention is needed
C17_Witness ==
    /\ result # <<>>
    /\ arg = Str("not cutting")
    /\ result[1].level = "green"
    /\ result[1].needs_attention
    /\ result[1].keywords_detected # <<>>

\* null, non-string and empty input, and text shorter than 3 once trimmed
BoundaryInput(a) ==
    \/ a.type # "str"
    \/ a.value = ""
    \/ Cardinality({i \in 1..Len(a.value) : CharAt(a.value, i) # " "}) = 0
    \/ LET inked == {i \in 1..Len(a.value) : CharAt(a.value, i) # " "} IN
       \A i, j \in inked : j - i < 2

\* C19: for null, empty and non-string input and for text whose trimmed
\* length is below 3, the result is the zero-signal result.
C19_ZeroSignal ==
    (result # <<>> /\ BoundaryInput(arg)) =>
        result[1] = [score |-> Num(0), level |-> "green", keywords_detected |-> <<>>,
                     sentiment |-> "neutral", needs_attention |-> FALSE,
                     confidence |-> 0]

\* a two-letter text between blanks was analyzed
C19_Witness ==
    /\ result # <<>>
    /\ arg = Str("  hi ")
    /\ result[1].score = Num(0)
    /\ result[1].confidence = 0
    /\ result[1].sentiment = "neutral"

\* the behavioural heuristics as the specification lists them
SpecAllCaps(original) == IF Len(original) > 10 /\ IsUpper(original) THEN 5 ELSE 0
SpecPunctuation(t) == IF Contains(t, "!!!") \/ Contains(t, "???") THEN 3 ELSE 0
SpecRepetition(t) == IF HasTripleWord(Split(t)) THEN 5 ELSE 0
SpecQuestion(t) ==
    IF /\ \E q \in {"how to", "ways to", "should i"} : Contains(t, q)
       /\ \E w \in {"die", "end", "kill", "hurt"} : Contains(t, w)
    THEN 15 ELSE 0

\* C24: for a text entirely in upper case and longer than 10 characters the
\* result carries the +5 of the all-caps heuristic: in the score (raw sum of
\* the keywords and the behavioural score, clamped and rounded) and in the
\* confidence.
C24_AllCaps ==
    (/\ result # <<>>
     /\ arg.type = "str"
     /\ Len(Strip(arg.value)) > 10
     /\ IsUpper(arg.value)) =>
        LET t == text_lower_of(arg)
            behavioral == SpecAllCaps(Strip(arg.value)) + analyze_behavioral_patterns(t)
        IN  /\ result[1].score =
                  Round2(clamp_score(DecAdd(scan(lexicon, t).base_score, Num(behavioral))))
            /\ result[1].confidence =
                  calculate_confidence(result[1].keywords_detected, behavioral)

\* C25: the behavioural score gains exactly 15 when one or more of the three
\* question phrases occur together with a crisis word, and 0 otherwise: the
\* behavioural score of the analysed text is the sum of the punctuation, the
\* repetition and that single question bonus.
C25_QuestionBonus ==
    (result # <<>> /\ arg.type = "str" /\ ~too_short(text_lower_of(arg))) =>
        LET t == text_lower_of(arg) IN
        analyze_behavioral_patterns(t) =
            SpecAllCaps(t) + SpecPunctuation(t) + SpecRepetition(t) + SpecQuestion(t)

\* what one match adds according to the specification: the base score of its
\* tier, times 0.3 if the match is negated, times the multiplier of the
\* intensifier found before it
SpecContribution(text, match) ==
    LET tier == CHOOSE n \in DOMAIN CRISIS_KEYWORDS :
                    CRISIS_KEYWORDS[n].severity = match.severity
        base == CRISIS_KEYWORDS[tier].score
        negation == IF check_negation(text, match.keyword) THEN NegationFactor ELSE Num(1)
    IN  DecMul(DecMul(base, negation), check_intensity(text, match.keyword))

RECURSIVE SpecRawSum(_, _)
SpecRawSum(text, matches) ==
    IF matches = <<>> THEN Num(0)
    ELSE DecAdd(SpecContribution(text, Head(matches)), SpecRawSum(text, Tail(matches)))

\* C20: the raw score is the sum, over the matched keywords, of base(tier) x
\* (0.3 if negated) x (intensifier multiplier), plus the behavioural score:
\* no match's contribution depends on the other matches of its tier.
C20_PerMatch ==
    (result # <<>> /\ ~BoundaryInput(arg)) =>
        raw_score(lexicon, arg) =
            DecAdd(SpecRawSum(text_lower_of(arg), result[1].keywords_detected),
                   Num(analyze_behavioral_patterns(text_lower_of(arg))))

\* both raw sums fall on the same side outside [0, 100]
BothClamped(a, b) ==
    \/ DecLeq(a, Num(0)) /\ DecLeq(b, Num(0))
    \/ DecLeq(Num(100), a) /\ DecLeq(Num(100), b)

\* C6: for every lexicon keyword K, "not " + K scores strictly less than K,
\* unless clamping makes the two scores equal; where K is the only keyword
\* found, the raw sum of "not " + K is 0.3 times that of K.
C6_Negation ==
    \A k \in AllKeywords :
        (result # <<>> /\ arg = Str("not " \o k)) =>
            /\ \/ DecLess(result[1].score, ScoreOf(k))
               \/ /\ result[1].score = ScoreOf(k)
                  /\ BothClamped(RawOf(k), raw_score(lexicon, arg))
            /\ Len(result[1].keywords_detected) = 1 =>
                   raw_score(lexicon, arg) = DecMul(RawOf(k), NegationFactor)

\* "not sad" was analyzed: sad alone scores 8, negated 2.4
C6_Witness ==
    /\ result # <<>>
    /\ arg = Str("not sad")
    /\ result[1].score = Dec(24, 1)
    /\ ScoreOf("sad") = Num(8)

\* C7: for every lexicon keyword K, "extremely " + K scores at least as
\* much as K.
C7_Intensity ==
    \A k \in AllKeywords :
        (result # <<>> /\ arg = Str("extremely " \o k)) =>
            DecLeq(ScoreOf(k), result[1].score)

\* "extremely sad" was analyzed: sad alone scores 8, intensified 12
C7_Witness ==
    /\ result # <<>>
    /\ arg = Str("extremely sad")
    /\ result[1].score = Num(12)
    /\ ScoreOf("sad") = Num(8)

====
